---- MODULE Spec2Model ----
(***************************************************************************)
(* Loan accounting engine of the microfinance backend                      *)
(* (src/app/routers/loans_router.py, src/app/utils/loan_calculations.py). *)
(*                                                                         *)
(* Money is held in cents (integers), the value a Numeric(12,2) column     *)
(* stores. Request amounts and settings are Decimals of arbitrary          *)
(* precision; they are held in thousandths ("mills") so that money()       *)
(* really rounds. One loan row (one loan_id) is modelled together with     *)
(* its installments, charges, payments, allocations and ledger rows.       *)
(* Dates (due_date, payment_date) and the member/group identifiers carry   *)
(* no money and are left out; paid_date is kept as a NULL/today flag.      *)
(***************************************************************************)
EXTENDS Integers, Sequences, FiniteSets, TLC

VARIABLES
    settings,      \* system_settings rows (key -> value), fixed after Init
    loan,          \* the loans row
    installments,  \* loan_installments rows, index = installment_no
    charges,       \* loan_charges rows, in insertion order
    payments,      \* loan_payments rows, index = payment_id
    allocations,   \* loan_payment_allocations rows, in insertion order
    ledger,        \* loan_ledger rows, index order = ledger_id order
    last,          \* history: the last request and its response
    sess,          \* the database sessions of the requests in flight (get_db)
    others         \* status of the other loans rows with this loan's member_id

vars == <<settings, loan, installments, charges, payments, allocations, ledger,
          last, sess, others>>

\* the rows a commit persists
db == <<loan, installments, charges, payments, allocations, ledger>>

----------------------------------------------------------------------------
(* Bounds of the model *)

MaxPayments == 2
MaxLedger == 6
MaxRequests == 3
MaxWeeks == 10
MaxLoans == 3

----------------------------------------------------------------------------
(* Pure helpers *)

Min(a, b) == IF a <= b THEN a ELSE b

\* money(x) for x = num/den cents: quantize to 0.01 with ROUND_HALF_UP
\* (ties away from zero).
money(num, den) ==
    IF num >= 0 THEN (2 * num + den) \div (2 * den)
                ELSE -((2 * (-num) + den) \div (2 * den))

RECURSIVE SumSeq(_)
SumSeq(s) == IF s = <<>> THEN 0 ELSE Head(s) + SumSeq(Tail(s))

RECURSIVE GCD(_, _)
GCD(a, b) == IF b = 0 THEN a ELSE GCD(b, a % b)

\* money(x * pct / 100) for x >= 0 in cents and pct = num/den percent. The
\* fraction num/(100*den) is reduced to n/d and x is split into q*d + r, so
\* that x*n/d = q*n + r*n/d: the quotient is as it was and every product
\* stays within TLC's 32-bit integers.
money_percent(x, num, den) ==
    LET g == GCD(num, 100 * den)
        n == num \div g
        d == (100 * den) \div g
    IN  (x \div d) * n + money((x % d) * n, d)

\* get_setting_decimal(db, key, "0"): the value in mills
get_setting_decimal(key) == settings[key]

\* principal in cents, rate in mills of a percent: principal * rate / 100
compute_interest_tenure_flat(principal, interest_rate_percent) ==
    money_percent(principal, interest_rate_percent, 1000)

\* update_loan's variant: the rate itself is first quantized to 2 decimals
compute_interest_total_tenure_flat(principal, interest_rate_percent) ==
    LET p == money(principal, 1)
        rate == money(interest_rate_percent, 10)   \* hundredths of a percent
    IN  money_percent(p, rate, 100)

\* create_loan's fees: processing and insurance always a percentage,
\* book price always a fixed amount
compute_fees_from_settings(principal) ==
    LET proc_pct == get_setting_decimal("PROCESSING_FEES")
        ins_pct == get_setting_decimal("INSURANCE_FEES")
        book_price == money(get_setting_decimal("BOOK_PRICE"), 10)
        processing_fee == money_percent(principal, proc_pct, 1000)
        insurance_fee == money_percent(principal, ins_pct, 1000)
    IN  [insurance_fee |-> insurance_fee,
         processing_fee |-> processing_fee,
         book_price |-> book_price,
         fees_total |-> money(processing_fee + insurance_fee + book_price, 1)]

TypeKey(key) ==
    CASE key = "PROCESSING_FEES" -> "PROCESSING_FEES_TYPE"
      [] key = "INSURANCE_FEES" -> "INSURANCE_FEES_TYPE"
      [] key = "BOOK_PRICE" -> "BOOK_PRICE_TYPE"

\* update_loan's fees: KEY_TYPE row decides PERCENT or FIXED ("" = no row)
compute_fee_from_setting(key, principal, default_type) ==
    LET val == settings[key]
        fee_type == IF settings[TypeKey(key)] # "" THEN settings[TypeKey(key)]
                    ELSE default_type
    IN  IF fee_type = "PERCENT" THEN money_percent(principal, val, 1000)
        ELSE money(val, 10)

build_weekly_schedule_truncated(principal, interest_total, duration_weeks, fees_total) ==
    LET principal_week == principal \div duration_weeks
        interest_week == interest_total \div duration_weeks
    IN  [principal_week |-> principal_week,
         interest_week |-> interest_week,
         base_installment |-> principal_week + interest_week,
         first_extra |-> fees_total]

build_weekly_schedule(principal, interest_total, duration_weeks, fees_total) ==
    LET principal_week == money(money(principal, 1), duration_weeks)
        interest_week == money(money(interest_total, 1), duration_weeks)
    IN  [principal_week |-> principal_week,
         interest_week |-> interest_week,
         base_installment |-> money(principal_week + interest_week, 1),
         first_extra |-> money(fees_total, 1)]

\* The installment rows create_loan and update_loan insert
NewInstallments_short(sch, duration_weeks) ==
    [i \in 1..(duration_weeks - 1) |->
        LET extra == IF i = 1 THEN sch.first_extra ELSE money(0, 1)
        IN  [principal_due |-> sch.principal_week,
             interest_due |-> IF i = 1 THEN money(sch.interest_week + extra, 1)
                              ELSE sch.interest_week,
             total_due |-> money(sch.base_installment + extra, 1),
             principal_paid |-> 0,
             interest_paid |-> 0,
             total_paid |-> 0,
             status |-> "PENDING",
             paid_date |-> "NULL"]]

NewInstallments(sch, duration_weeks) ==
    [i \in 1..duration_weeks |->
        LET extra == IF i = 1 THEN sch.first_extra ELSE money(0, 1)
        IN  [principal_due |-> sch.principal_week,
             interest_due |-> IF i = 1 THEN money(sch.interest_week + extra, 1)
                              ELSE sch.interest_week,
             total_due |-> money(sch.base_installment + extra, 1),
             principal_paid |-> 0,
             interest_paid |-> 0,
             total_paid |-> 0,
             status |-> "PENDING",
             paid_date |-> "NULL"]]

LedgerRow(txn_type, debit, credit, pc, ic, bal) ==
    [txn_type |-> txn_type, debit |-> debit, credit |-> credit,
     principal_component |-> pc, interest_component |-> ic,
     balance_outstanding |-> bal]

DisbursementRow_without_fees(principal, interest_total, fees_total, total) ==
    LedgerRow("DISBURSEMENT", total, money(0, 1), principal,
              interest_total, money(principal + interest_total, 1))

DisbursementRow(principal, interest_total, fees_total, total) ==
    LedgerRow("DISBURSEMENT", total, money(0, 1), principal,
              money(interest_total + fees_total, 1), total)

last_balance_oldest(rows) ==
    IF Len(rows) = 0 THEN 0 ELSE rows[1].balance_outstanding

last_balance(rows) ==
    IF Len(rows) = 0 THEN 0 ELSE rows[Len(rows)].balance_outstanding

----------------------------------------------------------------------------
(* alloc_to_installments *)

\* The query: installments of the loan with status != 'PAID', ascending
\* installment_no (the rows are indexed by installment_no).
RECURSIVE AscendingFrom(_, _)
AscendingFrom(insts, i) ==
    IF i > Len(insts) THEN <<>>
    ELSE IF insts[i].status # "PAID" THEN <<i>> \o AscendingFrom(insts, i + 1)
    ELSE AscendingFrom(insts, i + 1)

RECURSIVE DescendingFrom(_, _)
DescendingFrom(insts, i) ==
    IF i < 1 THEN <<>>
    ELSE IF insts[i].status # "PAID" THEN <<i>> \o DescendingFrom(insts, i - 1)
    ELSE DescendingFrom(insts, i - 1)

unpaid_installments_desc(insts) == DescendingFrom(insts, Len(insts))

unpaid_installments(insts) == AscendingFrom(insts, 1)

apply_amt_uncapped(amount, due_left) == amount

apply_amt(amount, due_left) == IF amount >= due_left THEN due_left ELSE amount

split_principal_first(amt, principal_left, interest_left) ==
    LET pr_add == money(Min(amt, principal_left), 1)
        rem == money(amt - pr_add, 1)
    IN  [in_add |-> money(Min(rem, interest_left), 1), pr_add |-> pr_add]

\* interest first, the rest to principal, clamped at what principal is left
split(amt, principal_left, interest_left) ==
    LET in_add == money(Min(amt, interest_left), 1)
        rem == money(amt - in_add, 1)
    IN  [in_add |-> in_add, pr_add |-> money(Min(rem, principal_left), 1)]

fully_paid_on_any(new_due_left) == TRUE

\* the installment becomes PAID when nothing of total_due is left
fully_paid(new_due_left) == new_due_left <= 0

alloc_step_unsplit(st, i) ==
    LET inst == st.insts[i]
        due_left == money(inst.total_due - inst.total_paid, 1)
    IN  IF due_left <= 0
        THEN [st EXCEPT !.insts[i].status = "PAID"]
        ELSE
          LET amt == apply_amt(st.amount, due_left)
              total_paid == money(inst.total_paid + amt, 1)
              paid == money(inst.total_due - total_paid, 1) <= 0
          IN  [insts |-> [st.insts EXCEPT ![i] =
                    [inst EXCEPT !.total_paid = total_paid,
                                 !.principal_paid = money(inst.principal_paid + amt, 1),
                                 !.status = IF paid THEN "PAID" ELSE "PENDING",
                                 !.paid_date = IF paid THEN "today" ELSE inst.paid_date]],
               amount |-> money(st.amount - amt, 1),
               allocations |-> Append(st.allocations,
                    [installment_no |-> i,
                     applied_amount |-> amt,
                     principal_alloc |-> amt,
                     interest_alloc |-> money(0, 1)]),
               applied_installments |-> st.applied_installments + (IF paid THEN 1 ELSE 0),
               applied_total |-> money(st.applied_total + amt, 1)]

\* One pass of the for loop body on installment i; st is the loop state
\* (rows, amount left, allocations, applied_installments, applied_total).
alloc_step(st, i) ==
    LET inst == st.insts[i]
        due_left == money(inst.total_due - inst.total_paid, 1)
    IN  IF due_left <= 0
        THEN [st EXCEPT !.insts[i].status = "PAID"]
        ELSE
          LET amt == apply_amt(st.amount, due_left)
              principal_left == money(inst.principal_due - inst.principal_paid, 1)
              interest_left == money(inst.interest_due - inst.interest_paid, 1)
              sp == split(amt, principal_left, interest_left)
              total_paid == money(inst.total_paid + amt, 1)
              new_due_left == money(inst.total_due - total_paid, 1)
              paid == fully_paid(new_due_left)
          IN  [insts |-> [st.insts EXCEPT ![i] =
                    [inst EXCEPT !.total_paid = total_paid,
                                 !.principal_paid = money(inst.principal_paid + sp.pr_add, 1),
                                 !.interest_paid = money(inst.interest_paid + sp.in_add, 1),
                                 !.status = IF paid THEN "PAID" ELSE "PENDING",
                                 !.paid_date = IF paid THEN "today" ELSE inst.paid_date]],
               amount |-> money(st.amount - amt, 1),
               allocations |-> Append(st.allocations,
                    [installment_no |-> i,
                     applied_amount |-> amt,
                     principal_alloc |-> sp.pr_add,
                     interest_alloc |-> sp.in_add]),
               applied_installments |-> st.applied_installments + (IF paid THEN 1 ELSE 0),
               applied_total |-> money(st.applied_total + amt, 1)]

alloc_loop_first(order, st) ==
    IF order = <<>> \/ st.amount <= 0 THEN st
    ELSE alloc_step(st, Head(order))

RECURSIVE alloc_loop(_, _)
alloc_loop(order, st) ==
    IF order = <<>> \/ st.amount <= 0 THEN st
    ELSE alloc_loop(Tail(order), alloc_step(st, Head(order)))

alloc_to_installments_all_applied(insts, amount) ==
    LET st == alloc_loop(unpaid_installments(insts),
                         [insts |-> insts,
                          amount |-> money(amount, 1),
                          allocations |-> <<>>,
                          applied_installments |-> 0,
                          applied_total |-> money(0, 1)])
    IN  [st EXCEPT !.applied_total = money(amount, 1)]

alloc_to_installments(insts, amount) ==
    alloc_loop(unpaid_installments(insts),
               [insts |-> insts,
                amount |-> money(amount, 1),
                allocations |-> <<>>,
                applied_installments |-> 0,
                applied_total |-> money(0, 1)])

sum_principal_alloc(allocs) ==
    money(SumSeq([k \in 1..Len(allocs) |-> allocs[k].principal_alloc]), 1)

sum_interest_alloc(allocs) ==
    money(SumSeq([k \in 1..Len(allocs) |-> allocs[k].interest_alloc]), 1)

----------------------------------------------------------------------------
(* Requests *)

Setting(rate, proc, ins, book, proc_type, ins_type, book_type) ==
    [INTEREST_RATE |-> rate, PROCESSING_FEES |-> proc, INSURANCE_FEES |-> ins,
     BOOK_PRICE |-> book, PROCESSING_FEES_TYPE |-> proc_type,
     INSURANCE_FEES_TYPE |-> ins_type, BOOK_PRICE_TYPE |-> book_type]

\* system_settings contents, values in mills: 10 % and no fees; 12.5 % with
\* 3 % + 1 % + 40.00; 12.345 % with a FIXED processing fee of 50.00
SettingsChoices ==
    { Setting(10000, 0, 0, 0, "", "", ""),
      Setting(12500, 3000, 1000, 40000, "", "", ""),
      Setting(12345, 50000, 0, 0, "FIXED", "", "") }

\* LoanCreate payloads (principal_amount in mills, gt 0; duration_weeks gt 0)
LoanCreates ==
    { [principal_amount |-> 999995, duration_weeks |-> 3],
      [principal_amount |-> 2000000, duration_weeks |-> 3],
      [principal_amount |-> 4000000, duration_weeks |-> 4] }

\* LoanCreate payloads for the schedule calculator: more principals, every
\* duration from 1 week to MaxWeeks
ScheduleCreates ==
    { [principal_amount |-> p, duration_weeks |-> n] :
        p \in {999995, 1234565, 2000000, 4000000, 10000000}, n \in 1..MaxWeeks }

\* PaymentCreate.amount_received in mills (gt 0)
PayAmounts == {4, 549996, 1100000, 2200000, 5000000}

TermFields ==
    {"product_id", "disburse_date", "first_installment_date", "duration_weeks",
     "principal_amount", "insurance_fee", "processing_fee", "book_price"}

\* A LoanUpdate body: present = keys sent (model_dump(exclude_unset=True)),
\* given = keys sent with a value other than null
EmptyUpdate ==
    [present |-> {}, given |-> {}, loan_account_no |-> "", status |-> "",
     duration_weeks |-> 0, principal_amount |-> 0, insurance_fee |-> 0,
     processing_fee |-> 0, book_price |-> 0]

StatusUpdate(s) ==
    [EmptyUpdate EXCEPT !.present = {"status"}, !.given = {"status"}, !.status = s]

LoanUpdates ==
    { EmptyUpdate }
    \cup { StatusUpdate(s) : s \in {"DISBURSED", "PAUSED", "closed", "CANCELLED"} }
    \cup { [EmptyUpdate EXCEPT !.present = {"product_id"}],
           [EmptyUpdate EXCEPT !.present = {"principal_amount"},
                               !.given = {"principal_amount"},
                               !.principal_amount = 2000000],
           [EmptyUpdate EXCEPT !.present = {"duration_weeks"},
                               !.given = {"duration_weeks"},
                               !.duration_weeks = 0],
           [EmptyUpdate EXCEPT
                !.present = {"loan_account_no", "status", "duration_weeks",
                             "processing_fee", "book_price"},
                !.given = {"loan_account_no", "status", "duration_weeks",
                           "processing_fee"},
                !.loan_account_no = " ACC-1 ", !.status = "PAUSED",
                !.duration_weeks = 4, !.processing_fee = 25004] }

\* str(...).strip() and str(...).upper() on the strings the requests carry
Strip(s) == IF s = " ACC-1 " THEN "ACC-1" ELSE s

Upper(s) == IF s = "closed" THEN "CLOSED" ELSE s

----------------------------------------------------------------------------
(* State *)

NoLoan ==
    [exists |-> FALSE, loan_account_no |-> "", status |-> "",
     duration_weeks |-> 0, principal_amount |-> 0, interest_amount_total |-> 0,
     total_disbursed_amount |-> 0, installment_amount |-> 0, advance_balance |-> 0]

NoOut ==
    [amount |-> 0, remaining |-> 0, applied_installments |-> 0,
     applied_total |-> 0, allocations |-> <<>>]

BasicFields == {"loan_account_no", "status"}

FeeFields == {"insurance_fee", "processing_fee", "book_price"}

\* What the last request was and what it returned: the handler, the HTTP
\* status, the loan_account_no/status keys an update carried, whether the
\* update carried a term field ("term") or a fee override ("fee"), and the
\* allocator's results behind a payment or advance response.
Response(op, code, basic, out) ==
    [op |-> op, code |-> code, basic |-> basic, terms |-> {}, out |-> out]

UpdateResponse(code, incoming) ==
    [Response("update_loan", code, incoming.given \cap BasicFields, NoOut)
        EXCEPT !.terms =
            (IF incoming.present \cap TermFields # {} THEN {"term"} ELSE {})
            \cup (IF incoming.given \cap FeeFields # {} THEN {"fee"} ELSE {})]

\* One session per request (Depends(get_db)); two requests can be in flight.
Sessions == {"s1", "s2"}

\* A session with no request: nothing read, nothing pending.
\* op/pc: the handler and where it stands (idle, flush, commit, done);
\* code/at: the answer of a finished request and the step a failed one
\* failed at; n: requests this session has served; amount/weeks/incoming:
\* the payload; snap_loan/snap_insts: the rows the handler has loaded into
\* the session; prev_bal: what last_balance returned; base_bal: history, the
\* ledger balance when the request began.
IdleSession ==
    [op |-> "none", pc |-> "idle", code |-> 0, at |-> "", n |-> 0,
     amount |-> 0, weeks |-> 0, incoming |-> EmptyUpdate,
     snap_loan |-> NoLoan, snap_insts |-> <<>>, prev_bal |-> 0, base_bal |-> 0]

Init ==
    /\ sess = [s \in Sessions |-> IdleSession]
    /\ others = <<>>
    /\ settings \in SettingsChoices
    /\ loan = NoLoan
    /\ installments = <<>>
    /\ charges = <<>>
    /\ payments = <<>>
    /\ allocations = <<>>
    /\ ledger = <<>>
    /\ last = Response("none", 0, {}, NoOut)

----------------------------------------------------------------------------
(* POST /loans : create_loan *)

Charge(charge_type, amt) ==
    [charge_type |-> charge_type, amount |-> money(amt, 1),
     is_waived |-> FALSE, waived_amount |-> money(0, 1)]

\* add_charge: a row per fee, fees of 0 omitted
NewCharges(insurance_fee, processing_fee, book_price) ==
    SelectSeq(<<Charge("INSURANCE_FEE", insurance_fee),
                Charge("PROCESSING_FEE", processing_fee),
                Charge("BOOK_PRICE", book_price)>>,
              LAMBDA c : ~(c.amount <= 0))

\* What create_loan computes for a principal and a duration under the current
\* settings: the installments, the loan totals and the opening ledger row.
DisburseTerms(principal, duration_weeks) ==
    LET interest_total ==
            compute_interest_tenure_flat(principal, get_setting_decimal("INTEREST_RATE"))
        fees == compute_fees_from_settings(principal)
        total == money(principal + interest_total + fees.fees_total, 1)
        sch == build_weekly_schedule(principal, interest_total,
                                     duration_weeks, fees.fees_total)
    IN  [installments |-> NewInstallments(sch, duration_weeks),
         interest_amount_total |-> interest_total,
         installment_amount |-> sch.base_installment,
         total_disbursed_amount |-> total,
         ledger |-> <<DisbursementRow(principal, interest_total,
                                      fees.fees_total, total)>>]

\* the loans row create_loan adds and flushes before the other rows
NewLoan(payload) ==
    LET principal == money(payload.principal_amount, 10)
        d == DisburseTerms(principal, payload.duration_weeks)
    IN  [exists |-> TRUE,
         loan_account_no |-> "",
         status |-> "DISBURSED",
         duration_weeks |-> payload.duration_weeks,
         principal_amount |-> principal,
         interest_amount_total |-> d.interest_amount_total,
         total_disbursed_amount |-> d.total_disbursed_amount,
         installment_amount |-> d.installment_amount,
         advance_balance |-> money(0, 1)]

create_loan(payload, member_found) ==
    /\ ~loan.exists
    /\ UNCHANGED <<settings, payments, allocations>>
    /\ IF ~member_found
       THEN /\ UNCHANGED <<loan, installments, charges, ledger>>
            /\ last' = Response("create_loan", 404, {}, NoOut)
       ELSE
         LET principal == money(payload.principal_amount, 10)
             interest_rate == get_setting_decimal("INTEREST_RATE")
             interest_total == compute_interest_tenure_flat(principal, interest_rate)
             fees == compute_fees_from_settings(principal)
             total == money(principal + interest_total + fees.fees_total, 1)
             sch == build_weekly_schedule(principal, interest_total,
                                          payload.duration_weeks, fees.fees_total)
         IN  /\ loan' = [exists |-> TRUE,
                         loan_account_no |-> "",
                         status |-> "DISBURSED",
                         duration_weeks |-> payload.duration_weeks,
                         principal_amount |-> principal,
                         interest_amount_total |-> interest_total,
                         total_disbursed_amount |-> total,
                         installment_amount |-> sch.base_installment,
                         advance_balance |-> money(0, 1)]
             /\ charges' = NewCharges(fees.insurance_fee, fees.processing_fee,
                                      fees.book_price)
             /\ installments' = NewInstallments(sch, payload.duration_weeks)
             /\ ledger' = <<DisbursementRow(principal, interest_total,
                                            fees.fees_total, total)>>
             /\ last' = Response("create_loan", 200, {}, NoOut)

----------------------------------------------------------------------------
(* POST /loans/{loan_id}/payments : create_payment *)

pay_eligible_not_terminal(status) == status \notin {"CLOSED", "CANCELLED"}

pay_eligible(status) == status \in {"DISBURSED", "ACTIVE"}

advance_replaced(advance_balance, remaining) ==
    IF remaining > 0 THEN remaining ELSE advance_balance

advance_after_payment(advance_balance, remaining) ==
    IF remaining > 0 THEN money(advance_balance + remaining, 1) ELSE advance_balance

payment_ledger_rows_netted(prev_bal, applied_total, remaining, total_principal, total_interest) ==
    LET new_bal == money(prev_bal - applied_total, 1)
    IN  <<LedgerRow("PAYMENT", money(0, 1), applied_total, total_principal,
                    total_interest, new_bal)>>
        \o (IF remaining > 0
            THEN <<LedgerRow("ADVANCE_ADD", money(0, 1), remaining, money(0, 1),
                             money(0, 1), money(new_bal - remaining, 1))>>
            ELSE <<>>)

\* the PAYMENT row, and the ADVANCE_ADD row when something is left over
payment_ledger_rows(prev_bal, applied_total, remaining, total_principal, total_interest) ==
    LET new_bal == money(prev_bal - applied_total, 1)
    IN  <<LedgerRow("PAYMENT", money(0, 1), applied_total, total_principal,
                    total_interest, new_bal)>>
        \o (IF remaining > 0
            THEN <<LedgerRow("ADVANCE_ADD", money(0, 1), remaining, money(0, 1),
                             money(0, 1), new_bal)>>
            ELSE <<>>)

status_after_payment_strict(status, new_bal, applied_total) ==
    IF new_bal < 0 THEN "CLOSED"
    ELSE IF status = "DISBURSED" /\ applied_total > 0 THEN "ACTIVE"
    ELSE status

status_after_payment(status, new_bal, applied_total) ==
    IF new_bal <= 0 THEN "CLOSED"
    ELSE IF status = "DISBURSED" /\ applied_total > 0 THEN "ACTIVE"
    ELSE status

create_payment(amount_received) ==
    LET pay_amount == money(amount_received, 10)
    IN
    /\ UNCHANGED <<settings, charges>>
    /\ IF ~loan.exists
       THEN /\ UNCHANGED <<loan, installments, payments, allocations, ledger>>
            /\ last' = Response("create_payment", 404, {}, NoOut)
       ELSE IF ~pay_eligible(loan.status) \/ pay_amount <= 0
       THEN /\ UNCHANGED <<loan, installments, payments, allocations, ledger>>
            /\ last' = Response("create_payment", 400, {}, NoOut)
       ELSE
         /\ Len(payments) < MaxPayments
         /\ LET r == alloc_to_installments(installments, pay_amount)
                total_principal == sum_principal_alloc(r.allocations)
                total_interest == sum_interest_alloc(r.allocations)
                payment_id == Len(payments) + 1
                prev_bal == last_balance(ledger)
                new_bal == money(prev_bal - r.applied_total, 1)
            IN  /\ installments' = r.insts
                /\ payments' = Append(payments, [amount_received |-> pay_amount])
                /\ allocations' = allocations \o
                        [k \in 1..Len(r.allocations) |->
                            [payment_id |-> payment_id,
                             installment_no |-> r.allocations[k].installment_no,
                             principal_alloc |-> r.allocations[k].principal_alloc,
                             interest_alloc |-> r.allocations[k].interest_alloc]]
                /\ ledger' = ledger \o payment_ledger_rows(prev_bal, r.applied_total,
                                        r.amount, total_principal, total_interest)
                /\ loan' = [loan EXCEPT
                        !.advance_balance = advance_after_payment(@, r.amount),
                        !.status = status_after_payment(@, new_bal, r.applied_total)]
                /\ last' = Response("create_payment", 200, {},
                        [amount |-> pay_amount,
                         remaining |-> r.amount,
                         applied_installments |-> r.applied_installments,
                         applied_total |-> r.applied_total,
                         allocations |-> r.allocations])

----------------------------------------------------------------------------
(* POST /loans/{loan_id}/apply-advance : apply_advance_balance *)

advance_is_empty_strict(adv) == adv < 0

advance_is_empty(adv) == adv <= 0

status_after_advance_strict(status, new_bal) ==
    IF new_bal < 0 THEN "CLOSED" ELSE status

\* close loan if zero (lines 1111-1112)
status_after_advance(status, new_bal) ==
    IF new_bal <= 0 THEN "CLOSED" ELSE status

apply_advance_balance ==
    /\ UNCHANGED <<settings, charges, payments, allocations>>
    /\ IF ~loan.exists
       THEN /\ UNCHANGED <<loan, installments, ledger>>
            /\ last' = Response("apply_advance_balance", 404, {}, NoOut)
       ELSE
         LET adv == money(loan.advance_balance, 1)
         IN  IF advance_is_empty(adv)
             THEN /\ UNCHANGED <<loan, installments, ledger>>
                  /\ last' = Response("apply_advance_balance", 200, {},
                        [NoOut EXCEPT !.amount = adv,
                                      !.remaining = loan.advance_balance])
             ELSE
               /\ Len(ledger) < MaxLedger
               /\ LET r == alloc_to_installments(installments, adv)
                      total_principal == sum_principal_alloc(r.allocations)
                      total_interest == sum_interest_alloc(r.allocations)
                      prev_bal == last_balance(ledger)
                      new_bal == money(prev_bal - r.applied_total, 1)
                  IN  /\ installments' = r.insts
                      /\ ledger' = Append(ledger,
                            LedgerRow("ADVANCE_APPLY", money(0, 1), r.applied_total,
                                      total_principal, total_interest, new_bal))
                      /\ loan' = [loan EXCEPT
                            !.advance_balance = r.amount,
                            !.status = status_after_advance(@, new_bal)]
                      /\ last' = Response("apply_advance_balance", 200, {},
                            [amount |-> adv,
                             remaining |-> r.amount,
                             applied_installments |-> r.applied_installments,
                             applied_total |-> r.applied_total,
                             allocations |-> r.allocations])

----------------------------------------------------------------------------
(* PUT /loans/{loan_id} : update_loan *)

has_payment_never == FALSE

has_payment == Len(payments) > 0

term_change_requested_non_null(incoming) == incoming.given \cap TermFields # {}

term_change_requested(incoming) == incoming.present \cap TermFields # {}

\* loan_account_no and status, applied whenever the request is not refused
basic_updates(l, incoming) ==
    [l EXCEPT
        !.loan_account_no = IF "loan_account_no" \in incoming.given
                            THEN Strip(incoming.loan_account_no) ELSE @,
        !.status = IF "status" \in incoming.given
                   THEN Upper(incoming.status) ELSE @]

update_loan(incoming) ==
    /\ UNCHANGED <<settings, charges, payments, allocations>>
    /\ IF ~loan.exists
       THEN /\ UNCHANGED <<loan, installments, ledger>>
            /\ last' = UpdateResponse(404, incoming)
       ELSE IF has_payment /\ term_change_requested(incoming)
       THEN /\ UNCHANGED <<loan, installments, ledger>>
            /\ last' = UpdateResponse(409, incoming)
       ELSE IF ~term_change_requested(incoming)
       THEN /\ loan' = basic_updates(loan, incoming)
            /\ UNCHANGED <<installments, ledger>>
            /\ last' = UpdateResponse(200, incoming)
       ELSE
         LET l1 == basic_updates(loan, incoming)
             duration_weeks == IF "duration_weeks" \in incoming.given
                               THEN incoming.duration_weeks ELSE l1.duration_weeks
             principal == IF "principal_amount" \in incoming.given
                          THEN money(money(incoming.principal_amount, 10), 1)
                          ELSE money(l1.principal_amount, 1)
             insurance_fee ==
                 IF "insurance_fee" \in incoming.given
                 THEN money(incoming.insurance_fee, 10)
                 ELSE compute_fee_from_setting("INSURANCE_FEES", principal, "PERCENT")
             processing_fee ==
                 IF "processing_fee" \in incoming.given
                 THEN money(incoming.processing_fee, 10)
                 ELSE compute_fee_from_setting("PROCESSING_FEES", principal, "PERCENT")
             book_price ==
                 IF "book_price" \in incoming.given
                 THEN money(incoming.book_price, 10)
                 ELSE compute_fee_from_setting("BOOK_PRICE", principal, "FIXED")
             fees_total == money(insurance_fee + processing_fee + book_price, 1)
             interest_rate == settings["INTEREST_RATE"]
             interest_total == compute_interest_total_tenure_flat(principal, interest_rate)
         IN
         IF duration_weeks <= 0
         THEN \* build_weekly_schedule raises ValueError before anything is
              \* written; the session is closed without a commit
              /\ UNCHANGED <<loan, installments, ledger>>
              /\ last' = UpdateResponse(500, incoming)
         ELSE
           LET sch == build_weekly_schedule(principal, interest_total,
                                            duration_weeks, fees_total)
               total == money(money(principal + interest_total + fees_total, 1), 1)
           IN  /\ loan' = [l1 EXCEPT
                     !.duration_weeks = duration_weeks,
                     !.principal_amount = principal,
                     !.interest_amount_total = interest_total,
                     !.installment_amount = sch.base_installment,
                     !.total_disbursed_amount = total,
                     !.status = IF @ \notin {"DISBURSED", "ACTIVE", "CLOSED",
                                             "CANCELLED", "INACTIVE"}
                                THEN "DISBURSED" ELSE @]
               /\ installments' = NewInstallments(sch, duration_weeks)
               /\ ledger' = <<DisbursementRow(principal, interest_total,
                                              fees_total, total)>>
               /\ last' = UpdateResponse(200, incoming)

----------------------------------------------------------------------------
(* PATCH /loans/{loan_id}/deactivate : deactivate_loan *)

deactivate_loan ==
    /\ UNCHANGED <<settings, installments, charges, payments, allocations, ledger>>
    /\ IF ~loan.exists
       THEN /\ UNCHANGED loan
            /\ last' = Response("deactivate_loan", 404, {}, NoOut)
       ELSE IF has_payment
       THEN /\ UNCHANGED loan
            /\ last' = Response("deactivate_loan", 409, {}, NoOut)
       ELSE /\ loan' = [loan EXCEPT !.status = "INACTIVE"]
            /\ last' = Response("deactivate_loan", 200, {}, NoOut)

----------------------------------------------------------------------------
(* Specification *)

\* Requests served one at a time, each handler from its first query to its
\* commit in one step.
CreateLoan ==
    /\ \E payload \in LoanCreates, member_found \in BOOLEAN :
          create_loan(payload, member_found)
    /\ UNCHANGED <<sess, others>>

CreatePayment ==
    /\ \E amount_received \in PayAmounts : create_payment(amount_received)
    /\ UNCHANGED <<sess, others>>

ApplyAdvance == apply_advance_balance /\ UNCHANGED <<sess, others>>

UpdateLoan ==
    /\ \E incoming \in LoanUpdates : update_loan(incoming)
    /\ UNCHANGED <<sess, others>>

DeactivateLoan == deactivate_loan /\ UNCHANGED <<sess, others>>

Next ==
    \/ CreateLoan
    \/ CreatePayment
    \/ ApplyAdvance
    \/ UpdateLoan
    \/ DeactivateLoan

Spec == Init /\ [][Next]_vars

----------------------------------------------------------------------------
(* Requests as database transactions.                                      *)
(*                                                                         *)
(* Every request runs in its own Session (get_db) on PostgreSQL at READ    *)
(* COMMITTED: what a handler loads is what was committed when it queried,  *)
(* what it changes stays in its session until db.flush()/db.commit(), an   *)
(* UPDATE sent by a flush locks its row until the transaction ends, and an *)
(* exception before the commit returns ends the transaction by rollback    *)
(* (db.rollback() in the except blocks, db.close() in get_db).             *)
(* Two create_payment requests may be in flight together; the other        *)
(* handlers are stepped through begin / flush / commit one at a time.      *)
(* Session s2 only serves a request that arrives while s1 is busy.         *)

autocommit_on == TRUE

\* sessionmaker(autocommit=False): a flush is not a commit
autocommit == FALSE

InFlight(s) == sess[s].pc \in {"flush", "commit"}

Other(s) == CHOOSE o \in Sessions : o # s

Started == sess["s1"].n + sess["s2"].n

\* a request can be handed to session s
CanBegin(s) ==
    /\ ~InFlight(s)
    /\ Started < MaxRequests
    /\ IF s = "s1" THEN TRUE ELSE InFlight("s1")

\* no create_payment besides s is in flight
Alone(s) == ~InFlight(Other(s))

Begun(s, op) == [IdleSession EXCEPT !.op = op, !.n = sess[s].n + 1]

\* the request of session s has been answered with code, having last stood at pc
Done(s, code) ==
    [sess[s] EXCEPT !.pc = "done", !.code = code, !.at = sess[s].pc,
                    !.prev_bal = 0]

\* what the unit of work writes for a loaded row: the columns whose value
\* the handler changed, over whatever is committed by then
MergeRow(committed, loaded, mine) ==
    [f \in DOMAIN committed |->
        IF mine[f] # loaded[f] THEN mine[f] ELSE committed[f]]

MergeRows(committed, loaded, mine) ==
    [i \in DOMAIN committed |-> MergeRow(committed[i], loaded[i], mine[i])]

\* create_loan: request accepted, member looked up, terms computed
TxnBeginLoan(s, payload, member_found) ==
    /\ s = "s1" /\ CanBegin(s) /\ Alone(s)
    /\ ~loan.exists
    /\ UNCHANGED <<settings, db>>
    /\ IF ~member_found
       THEN /\ sess' = [sess EXCEPT ![s] =
                    [Begun(s, "create_loan") EXCEPT !.pc = "done", !.code = 404,
                                                    !.at = "begin"]]
            /\ last' = Response("create_loan", 404, {}, NoOut)
       ELSE /\ sess' = [sess EXCEPT ![s] =
                    [Begun(s, "create_loan") EXCEPT
                        !.pc = "flush",
                        !.amount = payload.principal_amount,
                        !.weeks = payload.duration_weeks]]
            /\ UNCHANGED last

\* create_loan: db.add(loan); db.flush()
TxnFlushLoan(s) ==
    /\ sess[s].op = "create_loan" /\ sess[s].pc = "flush"
    /\ sess' = [sess EXCEPT ![s].pc = "commit"]
    /\ loan' = IF autocommit
               THEN NewLoan([principal_amount |-> sess[s].amount,
                             duration_weeks |-> sess[s].weeks])
               ELSE loan
    /\ UNCHANGED <<settings, installments, charges, payments, allocations,
                   ledger, last>>

\* create_loan: charges, installments and ledger row added; db.commit()
TxnCommitLoan(s) ==
    /\ sess[s].op = "create_loan" /\ sess[s].pc = "commit"
    /\ create_loan([principal_amount |-> sess[s].amount,
                    duration_weeks |-> sess[s].weeks], TRUE)
    /\ sess' = [sess EXCEPT ![s] = Done(s, 200)]

\* create_payment: the loan is loaded and checked, alloc_to_installments
\* loads the unpaid installments and changes them in the session
TxnBeginPay(s, amount_received) ==
    LET pay_amount == money(amount_received, 10)
    IN
    /\ CanBegin(s)
    /\ Alone(s) \/ sess[Other(s)].op = "create_payment"
    /\ UNCHANGED <<settings, db>>
    /\ IF ~loan.exists
       THEN /\ sess' = [sess EXCEPT ![s] =
                    [Begun(s, "create_payment") EXCEPT !.pc = "done", !.code = 404,
                                                       !.at = "begin"]]
            /\ last' = Response("create_payment", 404, {}, NoOut)
       ELSE IF ~pay_eligible(loan.status) \/ pay_amount <= 0
       THEN /\ sess' = [sess EXCEPT ![s] =
                    [Begun(s, "create_payment") EXCEPT !.pc = "done", !.code = 400,
                                                       !.at = "begin"]]
            /\ last' = Response("create_payment", 400, {}, NoOut)
       ELSE /\ Len(payments) + (IF Alone(s) THEN 0 ELSE 1) < MaxPayments
            /\ sess' = [sess EXCEPT ![s] =
                    [Begun(s, "create_payment") EXCEPT
                        !.pc = "flush",
                        !.amount = pay_amount,
                        !.snap_loan = loan,
                        !.snap_insts = installments,
                        !.base_bal = last_balance(ledger)]]
            /\ UNCHANGED last

\* the rows create_payment holds in session s: the installments and the
\* loan as loaded and as changed, and the allocator's results
PayWork(s) ==
    LET r == alloc_to_installments(sess[s].snap_insts, sess[s].amount)
        new_bal == money(sess[s].prev_bal - r.applied_total, 1)
    IN  [r |-> r,
         new_bal |-> new_bal,
         advance_balance |->
             advance_after_payment(sess[s].snap_loan.advance_balance, r.amount),
         status |->
             status_after_payment(sess[s].snap_loan.status, new_bal, r.applied_total)]

\* create_payment: db.add(payment); db.flush() sends the INSERT and the
\* UPDATEs of the changed installments and of advance_balance, waiting for
\* the row locks of a payment that has flushed and not yet ended; then
\* last_balance queries the ledger
TxnFlushPay(s) ==
    /\ sess[s].op = "create_payment" /\ sess[s].pc = "flush"
    /\ ~(sess[Other(s)].op = "create_payment" /\ sess[Other(s)].pc = "commit")
    /\ sess' = [sess EXCEPT ![s].pc = "commit",
                            ![s].prev_bal = last_balance(ledger)]
    /\ LET w == PayWork(s)
       IN  IF autocommit
           THEN /\ installments' = MergeRows(installments, sess[s].snap_insts, w.r.insts)
                /\ loan' = MergeRow(loan, sess[s].snap_loan,
                        [sess[s].snap_loan EXCEPT !.advance_balance = w.advance_balance])
                /\ payments' = Append(payments, [amount_received |-> sess[s].amount])
           ELSE UNCHANGED <<installments, loan, payments>>
    /\ UNCHANGED <<settings, charges, allocations, ledger, last>>

\* create_payment: allocation and ledger rows added, status set; db.commit()
TxnCommitPay(s) ==
    /\ sess[s].op = "create_payment" /\ sess[s].pc = "commit"
    /\ LET w == PayWork(s)
           r == w.r
           payment_id == IF autocommit THEN Len(payments) ELSE Len(payments) + 1
       IN  /\ installments' = MergeRows(installments, sess[s].snap_insts, r.insts)
           /\ loan' = MergeRow(loan, sess[s].snap_loan,
                   [sess[s].snap_loan EXCEPT !.advance_balance = w.advance_balance,
                                             !.status = w.status])
           /\ payments' = IF autocommit THEN payments
                          ELSE Append(payments, [amount_received |-> sess[s].amount])
           /\ allocations' = allocations \o
                   [k \in 1..Len(r.allocations) |->
                       [payment_id |-> payment_id,
                        installment_no |-> r.allocations[k].installment_no,
                        principal_alloc |-> r.allocations[k].principal_alloc,
                        interest_alloc |-> r.allocations[k].interest_alloc]]
           /\ ledger' = ledger \o payment_ledger_rows(sess[s].prev_bal, r.applied_total,
                                   r.amount, sum_principal_alloc(r.allocations),
                                   sum_interest_alloc(r.allocations))
           /\ last' = Response("create_payment", 200, {},
                   [amount |-> sess[s].amount,
                    remaining |-> r.amount,
                    applied_installments |-> r.applied_installments,
                    applied_total |-> r.applied_total,
                    allocations |-> r.allocations])
    /\ sess' = [sess EXCEPT ![s] = Done(s, 200)]
    /\ UNCHANGED <<settings, charges>>

\* apply_advance_balance: request accepted
TxnBeginAdvance(s) ==
    /\ s = "s1" /\ CanBegin(s) /\ Alone(s)
    /\ sess' = [sess EXCEPT ![s] =
            [Begun(s, "apply_advance_balance") EXCEPT !.pc = "commit"]]
    /\ UNCHANGED <<settings, db, last>>

\* apply_advance_balance: the handler up to its return or db.commit()
TxnCommitAdvance(s) ==
    /\ sess[s].op = "apply_advance_balance" /\ sess[s].pc = "commit"
    /\ apply_advance_balance
    /\ sess' = [sess EXCEPT ![s] = Done(s, last'.code)]

\* update_loan: request accepted
TxnBeginUpdate(s, incoming) ==
    /\ s = "s1" /\ CanBegin(s) /\ Alone(s)
    /\ sess' = [sess EXCEPT ![s] =
            [Begun(s, "update_loan") EXCEPT !.pc = "commit", !.incoming = incoming]]
    /\ UNCHANGED <<settings, db, last>>

\* update_loan: the handler up to its HTTPException or db.commit()
TxnCommitUpdate(s) ==
    /\ sess[s].op = "update_loan" /\ sess[s].pc = "commit"
    /\ update_loan(sess[s].incoming)
    /\ sess' = [sess EXCEPT ![s] = Done(s, last'.code)]

\* the answer to a request whose flush or commit raised: create_loan and
\* update_loan turn an IntegrityError into 400, the others end as 500
fail_code(op) == IF op \in {"create_loan", "update_loan"} THEN 400 ELSE 500

\* the pending flush or commit of session s raises: the transaction is
\* rolled back, by db.rollback() or by db.close()
TxnFail(s) ==
    /\ InFlight(s)
    /\ sess' = [sess EXCEPT ![s] = Done(s, fail_code(sess[s].op))]
    /\ last' = Response(sess[s].op, fail_code(sess[s].op), {}, NoOut)
    /\ UNCHANGED <<settings, db>>

BeginLoan == \E s \in Sessions, payload \in LoanCreates, member_found \in BOOLEAN :
                TxnBeginLoan(s, payload, member_found) /\ UNCHANGED others

FlushLoan == \E s \in Sessions : TxnFlushLoan(s) /\ UNCHANGED others

CommitLoan == \E s \in Sessions : TxnCommitLoan(s) /\ UNCHANGED others

BeginPay == \E s \in Sessions, amount_received \in PayAmounts :
               TxnBeginPay(s, amount_received) /\ UNCHANGED others

FlushPay == \E s \in Sessions : TxnFlushPay(s) /\ UNCHANGED others

CommitPay == \E s \in Sessions : TxnCommitPay(s) /\ UNCHANGED others

BeginAdvance == \E s \in Sessions : TxnBeginAdvance(s) /\ UNCHANGED others

CommitAdvance == \E s \in Sessions : TxnCommitAdvance(s) /\ UNCHANGED others

BeginUpdate == \E s \in Sessions, incoming \in LoanUpdates : TxnBeginUpdate(s, incoming) /\ UNCHANGED others

CommitUpdate == \E s \in Sessions : TxnCommitUpdate(s) /\ UNCHANGED others

Fail == \E s \in Sessions : TxnFail(s) /\ UNCHANGED others

NextTxn ==
    \/ BeginLoan
    \/ FlushLoan
    \/ CommitLoan
    \/ BeginPay
    \/ FlushPay
    \/ CommitPay
    \/ BeginAdvance
    \/ CommitAdvance
    \/ BeginUpdate
    \/ CommitUpdate
    \/ Fail

SpecTxn == Init /\ [][NextTxn]_vars

----------------------------------------------------------------------------
(* Properties.  A step of handler h is a step with last'.op = h: every     *)
(* handler writes its own name there. Unprimed variables are the rows      *)
(* before the request, primed ones the rows after it.                      *)

PaySucceeds == last'.op = "create_payment" /\ last'.code = 200

PaySucceeded == last.op = "create_payment" /\ last.code = 200

\* principal_alloc + interest_alloc summed over the allocation rows of payment pid
AllocatedTo(rows, pid) ==
    LET mine == SelectSeq(rows, LAMBDA a : a.payment_id = pid)
    IN  SumSeq([k \in 1..Len(mine) |-> mine[k].principal_alloc + mine[k].interest_alloc])

\* total_paid summed over the installment rows
TotalPaid(insts) == SumSeq([i \in 1..Len(insts) |-> insts[i].total_paid])

\* C1: allocation conservation. For every successful create_payment with
\* rounded amount A, the principal_alloc + interest_alloc of the allocation
\* rows created for the payment plus the increase of loan.advance_balance
\* equals A.
C1_AllocationConservation ==
    [][PaySucceeds =>
        LET pid == Len(payments')
            A == payments'[pid].amount_received
        IN  /\ pid = Len(payments) + 1
            /\ AllocatedTo(allocations, pid) = 0
            /\ AllocatedTo(allocations', pid)
                 + (loan'.advance_balance - loan.advance_balance) = A]_vars

\* C1 witness: a payment on a loan already holding an advance that is split
\* over interest and principal rows and leaves a remainder.
C1_Witness ==
    /\ PaySucceeded
    /\ last.out.remaining > 0
    /\ loan.advance_balance > last.out.remaining
    /\ Len(payments) = 2

\* C2: waterfall order. An installment with total_paid > 0 has every
\* installment of smaller installment_no fully paid.
C2_WaterfallOrder ==
    \A i, j \in 1..Len(installments) :
        (i < j /\ installments[j].total_paid > 0)
            => installments[i].total_paid = installments[i].total_due

\* C2 witness: after a payment the second installment is partly paid and
\* the third untouched.
C2_Witness ==
    /\ PaySucceeded
    /\ Len(installments) >= 3
    /\ installments[2].total_paid > 0
    /\ installments[2].total_paid < installments[2].total_due
    /\ installments[3].total_paid = 0

\* C3: interest-first split. Each allocation of an amount x to an
\* installment takes interest_alloc = min(x, interest_due - interest_paid)
\* and principal_alloc = x - interest_alloc, and afterwards an installment
\* has principal_paid > 0 only if interest_paid = interest_due.
C3_InterestFirst ==
    [][ /\ (last'.op \in {"create_payment", "apply_advance_balance"} /\ last'.code = 200)
            => \A k \in 1..Len(last'.out.allocations) :
                 LET a == last'.out.allocations[k]
                     inst == installments[a.installment_no]
                 IN  /\ a.interest_alloc =
                            Min(a.applied_amount, inst.interest_due - inst.interest_paid)
                     /\ a.principal_alloc = a.applied_amount - a.interest_alloc
        /\ \A i \in 1..Len(installments') :
                 installments'[i].principal_paid > 0
                    => installments'[i].interest_paid = installments'[i].interest_due
      ]_vars

\* C3 witness: 550.00 paid on a fresh installment with interest_due 100.00
\* and principal_due 1000.00 gives interest 100.00, principal 450.00,
\* total_paid 550.00, status PENDING.
C3_Witness ==
    /\ PaySucceeded
    /\ Len(payments) = 1
    /\ payments[1].amount_received = 55000
    /\ installments[1].interest_due = 10000
    /\ installments[1].principal_due = 100000
    /\ installments[1].interest_paid = 10000
    /\ installments[1].principal_paid = 45000
    /\ installments[1].total_paid = 55000
    /\ installments[1].status = "PENDING"

\* C4: monotonicity. Across create_payment and apply_advance_balance steps
\* no installment's total_paid decreases, and none exceeds its total_due.
C4_Monotonic ==
    [][last'.op \in {"create_payment", "apply_advance_balance"} =>
        /\ Len(installments') = Len(installments)
        /\ \A i \in 1..Len(installments) :
              /\ installments'[i].total_paid >= installments[i].total_paid
              /\ installments'[i].total_paid <= installments'[i].total_due
              /\ installments'[i].total_due = installments[i].total_due]_vars

\* C4 witness: a second payment completes an installment the first one
\* left partly paid.
C4_Witness ==
    /\ PaySucceeded
    /\ Len(payments) = 2
    /\ Len(last.out.allocations) >= 1
    /\ LET a == last.out.allocations[1]
       IN  /\ a.applied_amount < installments[a.installment_no].total_due
           /\ installments[a.installment_no].total_paid
                = installments[a.installment_no].total_due

\* C5: create_payment on an existing loan whose status is neither
\* DISBURSED nor ACTIVE is rejected and changes no row.
C5_PayRejected ==
    [][(last'.op = "create_payment" /\ loan.exists
            /\ loan.status \notin {"DISBURSED", "ACTIVE"})
        => /\ last'.code = 400
           /\ UNCHANGED <<loan, installments, payments, allocations, ledger>>]_vars

\* C5 witness: a payment was refused on a PAUSED loan that still owes money.
C5_Witness ==
    /\ last.op = "create_payment"
    /\ last.code = 400
    /\ loan.status = "PAUSED"
    /\ Len(payments) > 0
    /\ last_balance(ledger) > 0

\* C6: every successful create_payment appends one PAYMENT row with debit 0,
\* credit = applied_total (the increase of the installments' total_paid) and
\* balance_outstanding = previous balance - applied_total, followed by an
\* ADVANCE_ADD row with credit = remainder and the same balance exactly
\* when the remainder is > 0.
C6_PaymentLedger ==
    [][PaySucceeds =>
        LET n == Len(ledger)
            applied_total == TotalPaid(installments') - TotalPaid(installments)
            remainder == payments'[Len(payments')].amount_received - applied_total
        IN  /\ n >= 1
            /\ SubSeq(ledger', 1, n) = ledger
            /\ Len(ledger') = n + (IF remainder > 0 THEN 2 ELSE 1)
            /\ ledger'[n + 1].txn_type = "PAYMENT"
            /\ ledger'[n + 1].debit = 0
            /\ ledger'[n + 1].credit = applied_total
            /\ ledger'[n + 1].balance_outstanding
                 = ledger[n].balance_outstanding - applied_total
            /\ remainder > 0 =>
                 /\ ledger'[n + 2].txn_type = "ADVANCE_ADD"
                 /\ ledger'[n + 2].credit = remainder
                 /\ ledger'[n + 2].balance_outstanding
                      = ledger'[n + 1].balance_outstanding]_vars

\* C6 witness: 5000.00 against four unpaid installments of 1100.00:
\* PAYMENT credit 4400.00, ADVANCE_ADD credit 600.00, equal balances.
C6_Witness ==
    /\ PaySucceeded
    /\ Len(installments) = 4
    /\ \A i \in 1..4 : installments[i].total_due = 110000
    /\ payments = <<[amount_received |-> 500000]>>
    /\ Len(ledger) = 3
    /\ ledger[2].txn_type = "PAYMENT" /\ ledger[2].credit = 440000
    /\ ledger[3].txn_type = "ADVANCE_ADD" /\ ledger[3].credit = 60000
    /\ ledger[3].balance_outstanding = ledger[2].balance_outstanding

\* C7: after a successful create_payment the loan is CLOSED if the new
\* ledger balance is <= 0, else ACTIVE if it was DISBURSED and something was
\* applied, else its status is unchanged.
C7_StatusAfterPay ==
    [][PaySucceeds =>
        loan'.status =
            IF last_balance(ledger') <= 0 THEN "CLOSED"
            ELSE IF loan.status = "DISBURSED"
                    /\ TotalPaid(installments') > TotalPaid(installments)
                 THEN "ACTIVE"
            ELSE loan.status]_vars

\* C7 witness: a payment brought the balance to exactly 0 and closed the loan.
C7_Witness ==
    /\ PaySucceeded
    /\ last_balance(ledger) = 0
    /\ last.out.applied_total > 0
    /\ loan.status = "CLOSED"

\* C8 (as claimed): a loan whose status is CLOSED has a latest ledger
\* balance <= 0.
C8_ClosedOnlyWhenSettled ==
    (loan.exists /\ loan.status = "CLOSED") => last_balance(ledger) <= 0

\* C9 (as claimed): once a loan is CLOSED or CANCELLED no step changes its
\* status, installments, advance_balance or ledger.
C9_TerminalFrozen ==
    [][(loan.exists /\ loan.status \in {"CLOSED", "CANCELLED"})
        => /\ loan'.status = loan.status
           /\ loan'.advance_balance = loan.advance_balance
           /\ UNCHANGED <<installments, ledger>>]_vars

\* C10: apply_advance_balance on a loan whose advance_balance is <= 0
\* appends no ledger row, leaves installments and the loan row unchanged and
\* reports 0 installments settled and 0 used.
C10_ApplyAdvanceNoop ==
    [][(last'.op = "apply_advance_balance" /\ loan.exists
            /\ loan.advance_balance <= 0)
        => /\ UNCHANGED <<loan, installments, ledger>>
           /\ last'.code = 200
           /\ last'.out.applied_installments = 0
           /\ last'.out.applied_total = 0]_vars

\* C10 witness: apply-advance answered on a loan with no advance and with
\* installments still unpaid.
C10_Witness ==
    /\ last.op = "apply_advance_balance"
    /\ last.code = 200
    /\ loan.exists
    /\ loan.advance_balance = 0
    /\ \E i \in 1..Len(installments) : installments[i].status # "PAID"
    /\ Len(payments) > 0

\* C11: apply_advance_balance on a loan whose advance_balance a is > 0 moves
\* money from the advance to the installments and neither creates nor
\* destroys any: with applied the increase of the installments' total_paid,
\* afterwards advance_balance = a - applied, exactly one row is appended to
\* the ledger, an ADVANCE_APPLY with credit = applied and balance_outstanding
\* = previous balance - applied, and the loan is CLOSED when that balance is 0.
C11_ApplyAdvance ==
    [][(last'.op = "apply_advance_balance" /\ loan.exists
            /\ loan.advance_balance > 0)
        => LET applied == TotalPaid(installments') - TotalPaid(installments)
               row == ledger'[Len(ledger')]
           IN  /\ last'.code = 200
               /\ last'.out.applied_total = applied
               /\ loan'.advance_balance = loan.advance_balance - applied
               /\ Len(ledger') = Len(ledger) + 1
               /\ SubSeq(ledger', 1, Len(ledger)) = ledger
               /\ row.txn_type = "ADVANCE_APPLY"
               /\ row.credit = applied
               /\ row.balance_outstanding = last_balance(ledger) - applied
               /\ (row.balance_outstanding = 0 => loan'.status = "CLOSED")]_vars

\* C11 witness: apply-advance has run on a loan that held an advance left by
\* a payment, has written its ADVANCE_APPLY row at balance 0 and the loan is
\* closed with the advance conserved.
C11_Witness ==
    /\ last.op = "apply_advance_balance"
    /\ last.code = 200
    /\ last.out.amount > 0
    /\ ledger[Len(ledger)].txn_type = "ADVANCE_APPLY"
    /\ ledger[Len(ledger) - 1].txn_type = "ADVANCE_ADD"
    /\ ledger[Len(ledger)].balance_outstanding = 0
    /\ loan.advance_balance = last.out.amount
    /\ loan.status = "CLOSED"

\* C12: the ledger balance is non-increasing. Reading the ledger in entry
\* order, no PAYMENT or ADVANCE_APPLY row has a balance_outstanding above that
\* of the row before it, whatever create_payment and apply_advance_balance
\* requests have run.
C12_BalanceNonIncreasing ==
    \A k \in 2..Len(ledger) :
        ledger[k].txn_type \in {"PAYMENT", "ADVANCE_APPLY"}
            => ledger[k].balance_outstanding <= ledger[k - 1].balance_outstanding

\* C12 witness: two payments and an applied advance are on the ledger, the
\* second payment strictly below the first.
C12_Witness ==
    \E j, k, m \in 1..Len(ledger) :
        /\ j < k
        /\ ledger[j].txn_type = "PAYMENT"
        /\ ledger[k].txn_type = "PAYMENT"
        /\ ledger[k].balance_outstanding < ledger[j].balance_outstanding
        /\ ledger[m].txn_type = "ADVANCE_APPLY"

\* Sum of the amounts of the loan_charges rows
SumCharges(rows) == SumSeq([k \in 1..Len(rows) |-> rows[k].amount])

IsPrefix(rows, rows2) ==
    /\ Len(rows) <= Len(rows2)
    /\ SubSeq(rows2, 1, Len(rows)) = rows

\* C13 as stated: the ledger is append-only. Every step of every handler
\* leaves the rows already on the ledger unchanged and at most appends rows.
C13_AppendOnly ==
    [][IsPrefix(ledger, ledger')]_vars

\* C13 amended: the ledger is append-only except for a term rebuild. Every
\* step leaves the rows already on the ledger unchanged and at most appends
\* rows, unless it is a successful update_loan that carries a term field on a
\* loan without payments: that step deletes the loan's ledger rows and leaves
\* a single new DISBURSEMENT row.
C13_AppendOnlyExceptRebuild ==
    [][\/ IsPrefix(ledger, ledger')
       \/ /\ last'.op = "update_loan"
          /\ last'.code = 200
          /\ "term" \in last'.terms
          /\ Len(payments) = 0
          /\ Len(ledger') = 1
          /\ ledger'[1].txn_type = "DISBURSEMENT"]_vars

\* C13 witness: a term update has rebuilt a loan disbursed at 1000.00 over 3
\* weeks as a 4-week loan, and its ledger is one row at the new total.
C13_Witness ==
    /\ last.op = "update_loan"
    /\ last.code = 200
    /\ "term" \in last.terms
    /\ loan.principal_amount = 100000
    /\ loan.duration_weeks = 4
    /\ Len(ledger) = 1
    /\ ledger[1].balance_outstanding = loan.total_disbursed_amount

\* total_due summed over the installment rows
TotalDue(insts) == SumSeq([i \in 1..Len(insts) |-> insts[i].total_due])

\* C14: schedule invariant. For every loan built by create_loan or rebuilt
\* by update_loan, the sum of total_due over its installments equals
\* principal + interest_total + fees_total exactly, the value stored as
\* total_disbursed_amount and as the balance of the DISBURSEMENT row.
C14_ScheduleSum ==
    loan.exists
        => /\ TotalDue(installments) = loan.total_disbursed_amount
           /\ TotalDue(installments) = ledger[1].balance_outstanding

\* C16: an update_loan request that carries any term field, on a loan that
\* has at least one payment, is answered 409 and changes nothing: neither the
\* loan row (loan_account_no and status included), nor the installments,
\* charges, payments, allocations or ledger.
C16_TermsFrozenAfterPayment ==
    [][(last'.op = "update_loan" /\ "term" \in last'.terms
            /\ loan.exists /\ Len(payments) > 0)
        => /\ last'.code = 409
           /\ UNCHANGED <<loan, installments, charges, payments,
                          allocations, ledger>>]_vars

\* C16 witness: a request carrying loan_account_no, status and term fields
\* has been refused on a loan with a payment; the account number is still
\* empty and the status is the one the payment left.
C16_Witness ==
    /\ last.op = "update_loan"
    /\ last.code = 409
    /\ last.basic = {"loan_account_no", "status"}
    /\ "term" \in last.terms
    /\ Len(payments) > 0
    /\ loan.loan_account_no = ""
    /\ loan.status = "ACTIVE"

\* C17: a successful update_loan that carries a term field (possible only on
\* a loan without payments) rebuilds the schedule and the opening ledger row:
\* afterwards the loan has exactly duration_weeks installments, numbered
\* 1..duration_weeks, all PENDING with zero paid amounts, and exactly one
\* ledger row, a DISBURSEMENT whose balance is the new principal +
\* interest_total + fees_total (the fees being what installment 1 carries
\* above the weekly installment).
C17_TermRebuild ==
    (last.op = "update_loan" /\ last.code = 200 /\ "term" \in last.terms)
        => /\ Len(payments) = 0
           /\ loan.duration_weeks > 0
           /\ DOMAIN installments = 1..loan.duration_weeks
           /\ \A i \in DOMAIN installments :
                 /\ installments[i].status = "PENDING"
                 /\ installments[i].principal_paid = 0
                 /\ installments[i].interest_paid = 0
                 /\ installments[i].total_paid = 0
           /\ Len(ledger) = 1
           /\ ledger[1].txn_type = "DISBURSEMENT"
           /\ ledger[1].balance_outstanding =
                 loan.principal_amount + loan.interest_amount_total
                 + (installments[1].total_due - loan.installment_amount)

\* C17 witness: a loan disbursed over 3 weeks has been rebuilt over 4 weeks
\* with a fee override, and carries 4 installments.
C17_Witness ==
    /\ last.op = "update_loan"
    /\ last.code = 200
    /\ last.terms = {"term", "fee"}
    /\ loan.duration_weeks = 4
    /\ loan.principal_amount = 200000
    /\ Len(installments) = 4
    /\ installments[1].total_due > loan.installment_amount

\* C18: update_loan rebuilds with the algorithm of create_loan. After a
\* successful term update without fee overrides, the installments, the loan's
\* interest_amount_total, installment_amount and total_disbursed_amount and
\* the DISBURSEMENT row are those create_loan produces for the same settings,
\* principal and duration.
C18_RebuildAsDisburse ==
    (last.op = "update_loan" /\ last.code = 200 /\ last.terms = {"term"})
        => LET d == DisburseTerms(loan.principal_amount, loan.duration_weeks)
           IN  /\ installments = d.installments
               /\ loan.interest_amount_total = d.interest_amount_total
               /\ loan.installment_amount = d.installment_amount
               /\ loan.total_disbursed_amount = d.total_disbursed_amount
               /\ ledger = d.ledger

\* create_payment served alone on the rows d (installments, advance_balance,
\* status, latest ledger balance): the rows it leaves
PayAlone(d, pay_amount) ==
    IF ~pay_eligible(d.status) THEN d
    ELSE LET r == alloc_to_installments(d.insts, pay_amount)
             new_bal == money(d.bal - r.applied_total, 1)
         IN  [insts |-> r.insts,
              advance_balance |-> advance_after_payment(d.advance_balance, r.amount),
              status |-> status_after_payment(d.status, new_bal, r.applied_total),
              bal |-> new_bal]

PaidAmounts(insts) ==
    [i \in DOMAIN insts |->
        <<insts[i].principal_paid, insts[i].interest_paid, insts[i].total_paid>>]

\* what C19 compares: installment paid amounts, advance and latest balance
Outcome(d) == <<PaidAmounts(d.insts), d.advance_balance, d.bal>>

\* both sessions have committed a create_payment and both had loaded the
\* same rows: the two requests overlapped
TwoPaymentsOverlapped ==
    /\ \A s \in Sessions :
          /\ sess[s].op = "create_payment"
          /\ sess[s].pc = "done"
          /\ sess[s].code = 200
    /\ sess["s1"].snap_insts = sess["s2"].snap_insts
    /\ sess["s1"].snap_loan = sess["s2"].snap_loan

\* C19: concurrent create_payment requests on one loan are serialized. When
\* two overlapping payments have both committed, the installments' paid
\* amounts, the advance_balance and the latest ledger balance are those of
\* serving the two requests one after the other, in one of the two orders.
C19_PaymentsSerialized ==
    TwoPaymentsOverlapped
        => LET d0 == [insts |-> sess["s1"].snap_insts,
                      advance_balance |-> sess["s1"].snap_loan.advance_balance,
                      status |-> sess["s1"].snap_loan.status,
                      bal |-> sess["s1"].base_bal]
               a == sess["s1"].amount
               b == sess["s2"].amount
               now == [insts |-> installments,
                       advance_balance |-> loan.advance_balance,
                       status |-> loan.status,
                       bal |-> last_balance(ledger)]
           IN  Outcome(now) \in {Outcome(PayAlone(PayAlone(d0, a), b)),
                                 Outcome(PayAlone(PayAlone(d0, b), a))}

\* C20: every request is all-or-nothing. A step of a request changes the
\* committed rows (loan, installments, charges, payments, allocations,
\* ledger) only if it is the step that ends the request with success; so a
\* request that fails, at its flush, at its commit or inside the handler,
\* has persisted none of its changes.
C20_AllOrNothing ==
    [][\A s \in Sessions :
          (sess'[s] # sess[s] /\ db' # db)
              => (sess'[s].pc = "done" /\ sess'[s].code = 200)]_vars

\* C20 witness: a create_payment that had flushed its payment row and its
\* installment changes failed at commit, and the loan has no payment and
\* nothing paid.
C20_Witness ==
    \E s \in Sessions :
        /\ sess[s].op = "create_payment"
        /\ sess[s].pc = "done"
        /\ sess[s].code = 500
        /\ sess[s].at = "commit"
        /\ loan.exists
        /\ loan.status = "DISBURSED"
        /\ Len(payments) = 0
        /\ Len(ledger) = 1
        /\ TotalPaid(installments) = 0

\* C23: a successful deactivate_loan appends exactly one ledger row, a
\* marker with zero debit and zero credit whose balance_outstanding is the
\* loan's previous balance, so that last_balance is the same before and after.
C23_DeactivateMarker ==
    [][(last'.op = "deactivate_loan" /\ last'.code = 200)
        => /\ Len(ledger') = Len(ledger) + 1
           /\ SubSeq(ledger', 1, Len(ledger)) = ledger
           /\ ledger'[Len(ledger')].debit = 0
           /\ ledger'[Len(ledger')].credit = 0
           /\ ledger'[Len(ledger')].balance_outstanding = last_balance(ledger)
           /\ last_balance(ledger') = last_balance(ledger)]_vars

\* C24: bucket consistency. In every reachable state each installment has
\* total_paid = principal_paid + interest_paid, principal_paid <=
\* principal_due and interest_paid <= interest_due.
C24_Buckets ==
    \A i \in DOMAIN installments :
        /\ installments[i].total_paid
              = installments[i].principal_paid + installments[i].interest_paid
        /\ installments[i].principal_paid <= installments[i].principal_due
        /\ installments[i].interest_paid <= installments[i].interest_due

\* C24 witness: an installment is partly paid, its interest in full and part
\* of its principal, and a later one is untouched.
C24_Witness ==
    \E i \in DOMAIN installments :
        /\ installments[i].interest_paid = installments[i].interest_due
        /\ installments[i].principal_paid > 0
        /\ installments[i].principal_paid < installments[i].principal_due
        /\ Len(payments) = 2

\* C25: ledger and schedule reconcile. For a loan whose installments'
\* total_due sum to the DISBURSEMENT balance, in every reachable state the
\* latest balance_outstanding equals the sum over the installments of
\* total_due - total_paid.
C25_Reconciled ==
    (loan.exists /\ TotalDue(installments) = ledger[1].balance_outstanding)
        => last_balance(ledger) = TotalDue(installments) - TotalPaid(installments)

\* C25 witness: such a loan has taken two payments, the second one above
\* what was left, and an apply-advance.
C25_Witness ==
    /\ loan.exists
    /\ TotalDue(installments) = ledger[1].balance_outstanding
    /\ Len(payments) = 2
    /\ TotalPaid(installments) = TotalDue(installments)
    /\ loan.advance_balance > 0
    /\ ledger[Len(ledger)].txn_type = "ADVANCE_APPLY"

\* C26: an advance exists only on a fully covered schedule. In every
\* reachable state advance_balance >= 0, and advance_balance > 0 implies
\* total_paid = total_due on every installment of the loan.
C26_AdvanceOnlyWhenCovered ==
    /\ loan.advance_balance >= 0
    /\ loan.advance_balance > 0
          => \A i \in DOMAIN installments :
                installments[i].total_paid = installments[i].total_due

\* C26 witness: a payment above the whole schedule has left an advance.
C26_Witness ==
    /\ PaySucceeded
    /\ loan.advance_balance > 0
    /\ last.out.remaining > 0
    /\ Len(installments) > 0

AllPaid(insts) == \A i \in DOMAIN insts : insts[i].status = "PAID"

\* C27: paying everything closes the loan. Whenever a create_payment or an
\* apply_advance_balance leaves every installment of the loan PAID, the
\* loan's status after that request is CLOSED.
C27_AllPaidCloses ==
    (/\ last.op \in {"create_payment", "apply_advance_balance"}
     /\ last.code = 200
     /\ last.out.amount > 0
     /\ Len(installments) > 0
     /\ AllPaid(installments))
        => loan.status = "CLOSED"

\* C28: the outstanding balance never goes negative. Every ledger row has
\* balance_outstanding >= 0.
C28_BalanceNonNegative ==
    \A k \in DOMAIN ledger : ledger[k].balance_outstanding >= 0

\* C30: charges stay consistent with the schedule. After a successful
\* create_loan and after every successful term update, the amounts of the
\* loan_charges rows sum to the fees carried by installment 1, that is to
\* total_disbursed_amount - principal_amount - interest_amount_total.
C30_ChargesMatchFees ==
    (/\ last.code = 200
     /\ \/ last.op = "create_loan"
        \/ last.op = "update_loan" /\ "term" \in last.terms)
        => SumCharges(charges) = loan.total_disbursed_amount
                - loan.principal_amount - loan.interest_amount_total

\* A payment request served alone on d: rejected (no change) when the
\* rounded amount is not positive, otherwise PayAlone of the rounded amount.
PayReq(d, amount_received) ==
    LET pay_amount == money(amount_received, 10)
    IN  IF pay_amount <= 0 THEN d ELSE PayAlone(d, pay_amount)

\* what C29 compares: installment paid amounts and statuses, advance_balance,
\* latest ledger balance and loan status
SplitOutcome(d) ==
    <<[i \in DOMAIN d.insts |->
          <<d.insts[i].principal_paid, d.insts[i].interest_paid,
            d.insts[i].total_paid, d.insts[i].status>>],
      d.advance_balance, d.bal, d.status>>

\* a successful create_payment of amount a leaves the loan where a payment
\* of any b taken from Amounts gives the outcome of one payment of a + b
SplitAgrees(Amounts) ==
    PaySucceeds =>
        LET d == [insts |-> installments,
                  advance_balance |-> loan.advance_balance,
                  status |-> loan.status,
                  bal |-> last_balance(ledger)]
            d1 == [insts |-> installments',
                   advance_balance |-> loan'.advance_balance,
                   status |-> loan'.status,
                   bal |-> last_balance(ledger')]
        IN  \A a \in Amounts, b \in Amounts :
                (money(a, 10) = last'.out.amount /\ pay_eligible(d1.status))
                    => SplitOutcome(PayReq(d1, b)) = SplitOutcome(PayReq(d, a + b))

\* C29 as stated: splitting a payment does not change the outcome. For all
\* amounts a, b > 0 with the loan still DISBURSED or ACTIVE after Pay(a),
\* Pay(a) then Pay(b) gives the same installment paid amounts and statuses,
\* advance_balance, latest ledger balance and loan status as Pay(a + b).
C29_SplitAnyAmount == [][SplitAgrees(PayAmounts)]_vars

\* C29 amended: the same, for amounts a and b that are whole numbers of
\* cents (create_payment rounds each amount_received to cents before it
\* allocates, so money(a) + money(b) = money(a + b) only then).
C29_SplitWholeCents == [][SplitAgrees({a \in PayAmounts : a % 10 = 0})]_vars

\* C29 witness: the second of two successful whole-cent payments has been
\* served on a loan that the first one left ACTIVE, with an installment
\* paid in part by the first and touched again by the second.
C29_Witness ==
    /\ PaySucceeded
    /\ Len(payments) = 2
    /\ \A k \in DOMAIN payments : payments[k].amount_received % 100 = 0
    /\ \E i \in DOMAIN installments :
          /\ Cardinality({k \in DOMAIN allocations :
                            allocations[k].installment_no = i}) = 2
          /\ installments[i].status = "PAID"

----------------------------------------------------------------------------
(* The schedule calculator on its own: one create_loan over ScheduleCreates *)

Disburse ==
    /\ \E payload \in ScheduleCreates, member_found \in BOOLEAN :
          create_loan(payload, member_found)
    /\ UNCHANGED <<sess, others>>

NextSchedule == Disburse

SpecSchedule == Init /\ [][NextSchedule]_vars

\* r is num/den rounded half-up to a whole number (num >= 0, den > 0):
\* r <= num/den + 1/2 < r + 1
IsRoundHalfUp(r, num, den) ==
    /\ 2 * den * r <= 2 * num + den
    /\ 2 * num - den < 2 * den * r

\* I (cents) is P * rate / 100 rounded half-up, for P in cents and rate in
\* mills of a percent: with P = q * 100000 + r, I - q * rate is
\* r * rate / 100000 rounded half-up
IsFlatInterest(I, P, rate) ==
    LET q == P \div 100000
        r == P % 100000
        rest == I - q * rate
    IN  /\ 100000 * rest <= r * rate + 50000
        /\ r * rate - 50000 < 100000 * rest

\* C22: schedule construction. A successful create_loan with principal P,
\* n periods and fees F stores I = round_half_up(P * rate / 100) and creates
\* n installments, each with principal_due = round_half_up(P / n),
\* interest_due = round_half_up(I / n), plus F on installment 1 only, and
\* total_due = principal_due + interest_due; the base installment is
\* round_half_up(P / n) + round_half_up(I / n).
C22_Schedule ==
    (last.op = "create_loan" /\ last.code = 200) =>
        LET P == loan.principal_amount
            I == loan.interest_amount_total
            n == loan.duration_weeks
            F == SumCharges(charges)
        IN  /\ IsFlatInterest(I, P, settings["INTEREST_RATE"])
            /\ Len(installments) = n
            /\ \A i \in DOMAIN installments :
                  /\ IsRoundHalfUp(installments[i].principal_due, P, n)
                  /\ IsRoundHalfUp(installments[i].interest_due
                                       - (IF i = 1 THEN F ELSE 0), I, n)
                  /\ installments[i].total_due =
                        installments[i].principal_due + installments[i].interest_due
            /\ loan.installment_amount =
                  installments[n].principal_due + installments[n].interest_due
                      - (IF n = 1 THEN F ELSE 0)

\* C22 witness: P = 10000.00 at 10 % over 10 weeks without fees, disbursed:
\* interest 1000.00, ten installments of 1000.00 / 100.00 / 1100.00 and a
\* base installment of 1100.00
C22_Witness ==
    /\ last.op = "create_loan" /\ last.code = 200
    /\ loan.principal_amount = 1000000
    /\ settings["INTEREST_RATE"] = 10000
    /\ charges = <<>>
    /\ loan.interest_amount_total = 100000
    /\ Len(installments) = 10
    /\ \A i \in DOMAIN installments :
          /\ installments[i].principal_due = 100000
          /\ installments[i].interest_due = 10000
          /\ installments[i].total_due = 110000
    /\ loan.installment_amount = 110000

----------------------------------------------------------------------------
(* The loans of one member: create_loan again for the member of the loan *)

\* create_loan for a member_id that already has a loans row. The handler
\* looks the member up, computes the terms and inserts the rows as above;
\* none of its queries reads the member's other loans, and the loans table
\* (Loan.__table_args__, created by Base.metadata.create_all) has no unique
\* index over member_id, so db.flush() raises no IntegrityError for it. The
\* new rows carry a new loan_id: of them only the loans row's status is
\* kept, in others.
create_loan_again(payload, member_found) ==
    /\ loan.exists
    /\ Len(others) < MaxLoans - 1
    /\ UNCHANGED <<settings, loan, installments, charges, payments, allocations,
                   ledger>>
    /\ IF ~member_found
       THEN /\ UNCHANGED others
            /\ last' = Response("create_loan", 404, {}, NoOut)
       ELSE /\ others' = Append(others, NewLoan(payload).status)
            /\ last' = Response("create_loan", 200, {}, NoOut)

CreateLoanAgain ==
    /\ \E payload \in LoanCreates, member_found \in BOOLEAN :
          create_loan_again(payload, member_found)
    /\ UNCHANGED sess

NextMember ==
    \/ CreateLoan
    \/ CreateLoanAgain
    \/ UpdateLoan
    \/ DeactivateLoan

SpecMember == Init /\ [][NextMember]_vars

\* a loan counts as active until it is closed, cancelled or deactivated
IsActiveStatus(status) == status \notin {"CLOSED", "CANCELLED", "INACTIVE"}

\* how many of the member's loans are in an active status
ActiveLoans ==
    (IF loan.exists /\ IsActiveStatus(loan.status) THEN 1 ELSE 0)
    + Cardinality({k \in DOMAIN others : IsActiveStatus(others[k])})

\* C21: a member never has two active loans. In every reachable state at
\* most one of the member's loans is in an active status (a create_loan for
\* a member who has an active loan is answered with a conflict and creates
\* no row).
C21_OneActiveLoan == ActiveLoans <= 1

====
